---------------------------- MODULE Spec2Model ----------------------------
(***************************************************************************)
(* Model of the calibration engine of checkmeasure-ai                      *)
(* (backend/pdf_processing/calibration): evidence extraction, the three    *)
(* estimators, candidate selection, result construction, validation and    *)
(* the scale fallback.                                                     *)
(*                                                                         *)
(* Python floats are modelled as exact rationals [n |-> Int, d |-> Int]    *)
(* with d > 0 in lowest terms.  Labels are sequences of one-character      *)
(* strings so that upper(), strip(), substring tests and the timber        *)
(* regular expression are computed character by character.                 *)
(***************************************************************************)
EXTENDS Integers, Sequences, FiniteSets, TLC

(***************************************************************************)
(* Exact rational arithmetic standing in for float arithmetic.             *)
(***************************************************************************)
Abs(x) == IF x < 0 THEN -x ELSE x

RECURSIVE GCD(_, _)
GCD(a, b) == IF b = 0 THEN a ELSE GCD(b, a % b)

Norm(n, d) ==
    LET g == GCD(Abs(n), Abs(d))
        s == IF d < 0 THEN -1 ELSE 1
    IN  [n |-> s * (n \div g), d |-> s * (d \div g)]

R(i) == [n |-> i, d |-> 1]

Zero == R(0)
One == R(1)

RAdd(x, y) ==
    LET g == GCD(x.d, y.d)
    IN  Norm(x.n * (y.d \div g) + y.n * (x.d \div g), (x.d \div g) * y.d)

RNeg(x) == [n |-> -x.n, d |-> x.d]

RSub(x, y) == RAdd(x, RNeg(y))

RMul(x, y) ==
    LET g1 == GCD(Abs(x.n), y.d)
        g2 == GCD(Abs(y.n), x.d)
    IN  Norm((x.n \div g1) * (y.n \div g2), (x.d \div g2) * (y.d \div g1))

\* x / y for y # 0 (the callers guard the division as the code does)
RDiv(x, y) == RMul(x, Norm(y.d, y.n))

\* a/b < c/d for b, d > 0, by integer parts and then the reciprocals of the
\* fractional parts, so that no cross product is ever formed
RECURSIVE FracLt(_, _, _, _)
FracLt(a, b, c, d) ==
    LET q1 == a \div b
        q2 == c \div d
        r1 == a % b
        r2 == c % d
    IN  IF q1 # q2 THEN q1 < q2
        ELSE IF r2 = 0 THEN FALSE
        ELSE IF r1 = 0 THEN TRUE
        ELSE FracLt(d, r2, b, r1)

RLt(x, y) == FracLt(x.n, x.d, y.n, y.d)
RLe(x, y) == ~RLt(y, x)
RGt(x, y) == RLt(y, x)
RGe(x, y) == ~RLt(x, y)

RMin(x, y) == IF RLt(y, x) THEN y ELSE x
RMax(x, y) == IF RGt(y, x) THEN y ELSE x
RAbs(x) == [n |-> Abs(x.n), d |-> x.d]

RECURSIVE RSum(_)
RSum(s) == IF s = <<>> THEN Zero ELSE RAdd(Head(s), RSum(Tail(s)))

\* max() over a non-empty sequence
RECURSIVE RMaxSeq(_)
RMaxSeq(s) == IF Len(s) = 1 THEN s[1] ELSE RMax(s[1], RMaxSeq(Tail(s)))

\* statistics.mean
Mean(s) == RDiv(RSum(s), R(Len(s)))

RECURSIVE SqDev(_, _)
SqDev(s, m) ==
    IF s = <<>> THEN Zero
    ELSE RAdd(RMul(RSub(Head(s), m), RSub(Head(s), m)), SqDev(Tail(s), m))

\* statistics.variance: the unbiased sample variance (needs two data points)
Variance(s) == RDiv(SqDev(s, Mean(s)), R(Len(s) - 1))

(***************************************************************************)
(* Labels: sequences of one-character strings.                             *)
(***************************************************************************)
LowerCase == <<"a","b","c","d","e","f","g","h","i","j","k","l","m",
               "n","o","p","q","r","s","t","u","v","w","x","y","z">>
UpperCase == <<"A","B","C","D","E","F","G","H","I","J","K","L","M",
               "N","O","P","Q","R","S","T","U","V","W","X","Y","Z">>
Digits == <<"0","1","2","3","4","5","6","7","8","9">>

IsDigit(ch) == \E i \in 1..10 : Digits[i] = ch
DigitVal(ch) == (CHOOSE i \in 1..10 : Digits[i] = ch) - 1
IsSpace(ch) == ch = " "

UpperChar(ch) ==
    IF \E i \in 1..26 : LowerCase[i] = ch
    THEN UpperCase[CHOOSE i \in 1..26 : LowerCase[i] = ch]
    ELSE ch

\* str.upper()
Upper(s) == [i \in 1..Len(s) |-> UpperChar(s[i])]

RECURSIVE LStrip(_)
LStrip(s) == IF s # <<>> /\ IsSpace(Head(s)) THEN LStrip(Tail(s)) ELSE s

RECURSIVE RStrip(_)
RStrip(s) ==
    IF s # <<>> /\ IsSpace(s[Len(s)]) THEN RStrip(SubSeq(s, 1, Len(s) - 1)) ELSE s

\* str.strip()
Strip(s) == RStrip(LStrip(s))

\* sub in s
Contains(sub, s) ==
    \E i \in 0..(Len(s) - Len(sub)) : SubSeq(s, i + 1, i + Len(sub)) = sub

\* str.replace(" ", "")
RECURSIVE RemoveSpaces(_)
RemoveSpaces(s) ==
    IF s = <<>> THEN <<>>
    ELSE IF IsSpace(Head(s)) THEN RemoveSpaces(Tail(s))
    ELSE <<Head(s)>> \o RemoveSpaces(Tail(s))

\* length of the longest prefix of s made of digits / of spaces
RECURSIVE DigitRun(_)
DigitRun(s) == IF s # <<>> /\ IsDigit(Head(s)) THEN 1 + DigitRun(Tail(s)) ELSE 0

RECURSIVE SpaceRun(_)
SpaceRun(s) == IF s # <<>> /\ IsSpace(Head(s)) THEN 1 + SpaceRun(Tail(s)) ELSE 0

\* float() of a digit string
RECURSIVE DigitsToInt(_)
DigitsToInt(s) ==
    IF s = <<>> THEN 0
    ELSE 10 * DigitsToInt(SubSeq(s, 1, Len(s) - 1)) + DigitVal(s[Len(s)])

Drop(s, k) == SubSeq(s, k + 1, Len(s))

(***************************************************************************)
(* standard_components.py: the reference tables.  Only the fields the      *)
(* calibration reads (depth, flange_width) are kept for steel.             *)
(***************************************************************************)
SteelKeys ==
    << <<"2","0","0","P","F","C">>, <<"2","5","0","P","F","C">>,
       <<"3","0","0","P","F","C">>,
       <<"2","0","0","U","B","1","8">>, <<"2","0","0","U","B","2","2">>,
       <<"2","0","0","U","B","2","5">>, <<"2","5","0","U","B","2","5">>,
       <<"2","5","0","U","B","3","1">>, <<"3","1","0","U","B","3","2">>,
       <<"2","0","0","U","C","4","6">>, <<"2","0","0","U","C","5","2">>,
       <<"2","5","0","U","C","7","2">> >>

SteelDepth == <<200, 250, 300, 198, 202, 203, 248, 252, 298, 203, 206, 254>>
SteelFlange == <<75, 90, 100, 99, 133, 133, 124, 146, 149, 203, 204, 254>>

InSteelSections(label) == \E i \in 1..Len(SteelKeys) : SteelKeys[i] = label
SteelIndex(label) == CHOOSE i \in 1..Len(SteelKeys) : SteelKeys[i] = label

\* STEEL_SECTIONS[label]
STEEL_SECTIONS(label) ==
    [depth |-> SteelDepth[SteelIndex(label)],
     flange_width |-> SteelFlange[SteelIndex(label)]]

\* STANDARD_SPACINGS, in the insertion order that .items() iterates
SpacingKeys ==
    << <<"3","0","0","C","T","S">>, <<"4","5","0","C","T","S">>,
       <<"6","0","0","C","T","S">>,
       <<"3","0","0"," ","C","T","S">>, <<"4","5","0"," ","C","T","S">>,
       <<"6","0","0"," ","C","T","S">>,
       <<"@","3","0","0">>, <<"@","4","5","0">>, <<"@","6","0","0">>,
       <<"@"," ","3","0","0">>, <<"@"," ","4","5","0">>,
       <<"@"," ","6","0","0">> >>

SpacingValues == <<300, 450, 600, 300, 450, 600, 300, 450, 600, 300, 450, 600>>

STANDARD_SPACINGS == [i \in 1..Len(SpacingKeys) |->
                         [key |-> SpacingKeys[i], value |-> SpacingValues[i]]]

\* parse_timber_size: re.match(r'(\d+)\s*[xX]\s*(\d+)', size_string.strip());
\* the result is <<>> for None and <<width, depth>> otherwise
parse_timber_size(size_string) ==
    LET s  == Strip(size_string)
        n1 == DigitRun(s)
        a  == Drop(s, n1)
        b  == Drop(a, SpaceRun(a))
        c  == IF b = <<>> THEN <<>> ELSE Tail(b)
        e  == Drop(c, SpaceRun(c))
        n2 == DigitRun(e)
    IN  IF n1 >= 1 /\ b # <<>> /\ Head(b) \in {"x", "X"} /\ n2 >= 1
        THEN <<DigitsToInt(SubSeq(s, 1, n1)), DigitsToInt(SubSeq(e, 1, n2))>>
        ELSE <<>>

(***************************************************************************)
(* Detected elements.  A measurements dict is a set of entries             *)
(* [key, numeric, value] with distinct keys; numeric = FALSE stands for a  *)
(* value that is not a number (None, a string), on which arithmetic        *)
(* raises TypeError.                                                       *)
(***************************************************************************)
Num(v) == [numeric |-> TRUE, value |-> v]
NotANumber == [numeric |-> FALSE, value |-> 0]

Entry(k, pv) == [key |-> k, numeric |-> pv.numeric, value |-> pv.value]

\* key in measurements
HasKey(measurements, k) == \E e \in measurements : e.key = k

\* measurements[key]
Lookup(measurements, k) ==
    LET e == CHOOSE e \in measurements : e.key = k
    IN  [numeric |-> e.numeric, value |-> e.value]

\* calibration_types.py: ComponentDetection
ComponentDetection(label, component_type, pixel_dimension, expected_mm, confidence, measurement_axis) ==
    [label |-> label, component_type |-> component_type,
     pixel_dimension |-> pixel_dimension, expected_mm |-> expected_mm,
     confidence |-> confidence, measurement_axis |-> measurement_axis]

\* ComponentDetection.pixels_per_mm raises TypeError when the division is
\* reached with a pixel_dimension that is not a number
PixelsPerMmRaises(c) == c.expected_mm > 0 /\ ~c.pixel_dimension.numeric

\* a ratio computed with floor division, pixel_dimension // expected_mm
ComponentPixelsPerMm_Floored(c) ==
    IF c.expected_mm > 0
    THEN R(c.pixel_dimension.value \div c.expected_mm)
    ELSE Zero

\* ComponentDetection.pixels_per_mm
ComponentPixelsPerMm(c) ==
    IF c.expected_mm > 0
    THEN RDiv(R(c.pixel_dimension.value), R(c.expected_mm))
    ELSE Zero

\* a flange record that keeps the full confidence of the element
FlangeFactor_Full == One

FlangeFactor == Norm(9, 10)

FlangeSuffix == <<"_","f","l","a","n","g","e">>

\* _extract_components, steel branch of one element
SteelEvidence(label, measurements, confidence) ==
    IF ~InSteelSections(label) THEN <<>>
    ELSE
      (IF HasKey(measurements, "height_pixels")
       THEN <<ComponentDetection(label, "steel",
                  Lookup(measurements, "height_pixels"),
                  STEEL_SECTIONS(label).depth, confidence, "vertical")>>
       ELSE <<>>)
      \o
      (IF HasKey(measurements, "width_pixels")
          /\ STEEL_SECTIONS(label).flange_width # 0
       THEN <<ComponentDetection(label \o FlangeSuffix, "steel",
                  Lookup(measurements, "width_pixels"),
                  STEEL_SECTIONS(label).flange_width,
                  RMul(confidence, FlangeFactor), "horizontal")>>
       ELSE <<>>)

\* a timber branch that falls back on the key width_mm when the element has
\* no pixel measurement
TimberEvidence_Fabricating(label, measurements, confidence) ==
    LET timber_size == parse_timber_size(label)
    IN  IF timber_size = <<>> THEN <<>>
        ELSE IF HasKey(measurements, "width_pixels")
                  \/ HasKey(measurements, "height_pixels")
        THEN (IF HasKey(measurements, "width_pixels")
              THEN <<ComponentDetection(label, "timber",
                         Lookup(measurements, "width_pixels"),
                         timber_size[1], confidence, "horizontal")>>
              ELSE <<>>)
             \o
             (IF HasKey(measurements, "height_pixels")
              THEN <<ComponentDetection(label, "timber",
                         Lookup(measurements, "height_pixels"),
                         timber_size[2], confidence, "vertical")>>
              ELSE <<>>)
        ELSE IF HasKey(measurements, "width_mm")
        THEN <<ComponentDetection(label, "timber",
                   Lookup(measurements, "width_mm"),
                   timber_size[1], confidence, "horizontal")>>
        ELSE <<>>

\* _extract_components, timber branch of one element
TimberEvidence(label, measurements, confidence) ==
    LET timber_size == parse_timber_size(label)
    IN  IF timber_size = <<>> THEN <<>>
        ELSE
          (IF HasKey(measurements, "width_pixels")
           THEN <<ComponentDetection(label, "timber",
                      Lookup(measurements, "width_pixels"),
                      timber_size[1], confidence, "horizontal")>>
           ELSE <<>>)
          \o
          (IF HasKey(measurements, "height_pixels")
           THEN <<ComponentDetection(label, "timber",
                      Lookup(measurements, "height_pixels"),
                      timber_size[2], confidence, "vertical")>>
           ELSE <<>>)

\* the first STANDARD_SPACINGS value whose key is a substring of the label,
\* 0 standing for None
SpacingMm(label) ==
    LET hits == {i \in 1..Len(STANDARD_SPACINGS) :
                    Contains(STANDARD_SPACINGS[i].key, label)}
    IN  IF hits = {} THEN 0
        ELSE STANDARD_SPACINGS[CHOOSE i \in hits : \A j \in hits : i <= j].value

\* _extract_components, spacing branch of one element
SpacingEvidence(label, measurements, confidence) ==
    IF ~(Contains(<<"C","T","S">>, label) \/ Contains(<<"@">>, label)) THEN <<>>
    ELSE IF SpacingMm(label) # 0 /\ HasKey(measurements, "spacing_pixels")
    THEN <<ComponentDetection(label, "spacing",
               Lookup(measurements, "spacing_pixels"),
               SpacingMm(label), confidence, "horizontal")>>
    ELSE <<>>

\* the body of the loop of _extract_components for one element
ExtractElement(element) ==
    LET label == Upper(element.label)
        measurements == element.measurements
        confidence == element.confidence
    IN  IF measurements = {} THEN <<>>
        ELSE SteelEvidence(label, measurements, confidence)
             \o TimberEvidence(label, measurements, confidence)
             \o SpacingEvidence(label, measurements, confidence)

\* AutoCalibrator._extract_components
RECURSIVE _extract_components(_)
_extract_components(detected_elements) ==
    IF detected_elements = <<>> THEN <<>>
    ELSE ExtractElement(Head(detected_elements))
         \o _extract_components(Tail(detected_elements))

(***************************************************************************)
(* Estimators.  An invocation yields [kind, cand]: kind is "candidate",    *)
(* "none" (the estimator returned None) or "raise" (an exception left it). *)
(***************************************************************************)
CalibrationCandidate(method, components, pixels_per_mm, confidence, variance) ==
    [method |-> method, components |-> components,
     pixels_per_mm |-> pixels_per_mm, confidence |-> confidence,
     variance |-> variance]

NoCandidate == CalibrationCandidate("none", <<>>, Zero, Zero, Zero)

Returned(cand) == [kind |-> "candidate", cand |-> cand]
ReturnedNone == [kind |-> "none", cand |-> NoCandidate]
Raised == [kind |-> "raise", cand |-> NoCandidate]

\* [c for c in components if c.component_type == t]
RECURSIVE OfType(_, _)
OfType(components, t) ==
    IF components = <<>> THEN <<>>
    ELSE (IF Head(components).component_type = t
          THEN <<Head(components)>> ELSE <<>>)
         \o OfType(Tail(components), t)

\* the loop "ratio = component.pixels_per_mm; if ratio > 0: ratios.append"
RECURSIVE PositiveRatios(_)
PositiveRatios(comps) ==
    IF comps = <<>> THEN <<>>
    ELSE (IF RGt(ComponentPixelsPerMm(Head(comps)), Zero)
          THEN <<ComponentPixelsPerMm(Head(comps))>> ELSE <<>>)
         \o PositiveRatios(Tail(comps))

\* the same loop raises as soon as one pixels_per_mm raises
RatiosRaise(comps) == \E i \in 1..Len(comps) : PixelsPerMmRaises(comps[i])

\* statistics.variance(ratios) if len(ratios) > 1 else 0
RatioVariance(ratios) == IF Len(ratios) > 1 THEN Variance(ratios) ELSE Zero

Ten == R(10)
Half == Norm(1, 2)

\* a variance penalty without its ceiling of 0.5
PenalizedConfidence_Uncapped(base_confidence, variance) ==
    RMul(base_confidence, RSub(One, RMul(variance, Ten)))

\* base_confidence * (1 - min(variance * 10, 0.5))
PenalizedConfidence(base_confidence, variance) ==
    RMul(base_confidence, RSub(One, RMin(RMul(variance, Ten), Half)))

SteelBaseConfidence == Norm(95, 100)
TimberBaseConfidence == Norm(90, 100)
SpacingBaseConfidence == Norm(85, 100)

\* a steel estimator that scales its confidence by the mean detector
\* confidence of its records
_calibrate_from_steel_sections_Weighted(components) ==
    LET steel_components == OfType(components, "steel")
        ratios == PositiveRatios(steel_components)
        variance == RatioVariance(ratios)
        detector == Mean([j \in 1..Len(steel_components) |->
                             steel_components[j].confidence])
    IN  IF steel_components = <<>> THEN ReturnedNone
        ELSE IF RatiosRaise(steel_components) THEN Raised
        ELSE IF ratios = <<>> THEN ReturnedNone
        ELSE Returned(CalibrationCandidate("steel_section", steel_components,
                 Mean(ratios),
                 RMul(PenalizedConfidence(SteelBaseConfidence, variance), detector),
                 variance))

\* AutoCalibrator._calibrate_from_steel_sections
_calibrate_from_steel_sections(components) ==
    LET steel_components == OfType(components, "steel")
        ratios == PositiveRatios(steel_components)
        variance == RatioVariance(ratios)
    IN  IF steel_components = <<>> THEN ReturnedNone
        ELSE IF RatiosRaise(steel_components) THEN Raised
        ELSE IF ratios = <<>> THEN ReturnedNone
        ELSE Returned(CalibrationCandidate("steel_section", steel_components,
                 Mean(ratios),
                 PenalizedConfidence(SteelBaseConfidence, variance),
                 variance))

\* AutoCalibrator._calibrate_from_timber_sizes
_calibrate_from_timber_sizes(components) ==
    LET timber_components == OfType(components, "timber")
        ratios == PositiveRatios(timber_components)
        variance == RatioVariance(ratios)
    IN  IF timber_components = <<>> THEN ReturnedNone
        ELSE IF RatiosRaise(timber_components) THEN Raised
        ELSE IF ratios = <<>> THEN ReturnedNone
        ELSE Returned(CalibrationCandidate("timber_size", timber_components,
                 Mean(ratios),
                 PenalizedConfidence(TimberBaseConfidence, variance),
                 variance))

\* the records of spacing_groups[mm], in evidence order
RECURSIVE SpacingGroup(_, _)
SpacingGroup(spacing_components, mm) ==
    IF spacing_components = <<>> THEN <<>>
    ELSE (IF Head(spacing_components).expected_mm = mm
          THEN <<Head(spacing_components)>> ELSE <<>>)
         \o SpacingGroup(Tail(spacing_components), mm)

\* index of the first record with this expected_mm: the position of the
\* group in the insertion-ordered dict spacing_groups
FirstIndex(spacing_components, mm) ==
    CHOOSE i \in 1..Len(spacing_components) :
        /\ spacing_components[i].expected_mm = mm
        /\ \A j \in 1..(i - 1) : spacing_components[j].expected_mm # mm

\* a maximum that keeps the last group of maximal length
LargestGroup_LastWins(spacing_components) ==
    LET keys == {spacing_components[i].expected_mm :
                    i \in 1..Len(spacing_components)}
        size(mm) == Len(SpacingGroup(spacing_components, mm))
        best == CHOOSE mm \in keys :
                  \A other \in keys :
                     \/ size(other) < size(mm)
                     \/ /\ size(other) = size(mm)
                        /\ FirstIndex(spacing_components, mm)
                             >= FirstIndex(spacing_components, other)
    IN  SpacingGroup(spacing_components, best)

\* max(spacing_groups.values(), key=len): the first group of maximal length
LargestGroup(spacing_components) ==
    LET keys == {spacing_components[i].expected_mm :
                    i \in 1..Len(spacing_components)}
        size(mm) == Len(SpacingGroup(spacing_components, mm))
        best == CHOOSE mm \in keys :
                  \A other \in keys :
                     \/ size(other) < size(mm)
                     \/ /\ size(other) = size(mm)
                        /\ FirstIndex(spacing_components, mm)
                             <= FirstIndex(spacing_components, other)
    IN  SpacingGroup(spacing_components, best)

MinSpacingCount == 2

\* a spacing estimator that abstains only when it has no record at all
TooFewSpacings_OnlyEmpty(spacing_components) == spacing_components = <<>>

\* len(spacing_components) < 2
TooFewSpacings(spacing_components) == Len(spacing_components) < MinSpacingCount
BoostCount == 3
BoostVariance == Norm(1, 100)
BoostFactor == Norm(11, 10)
BoostCap == Norm(95, 100)

\* AutoCalibrator._calibrate_from_spacing_patterns
_calibrate_from_spacing_patterns(components) ==
    LET spacing_components == OfType(components, "spacing")
        largest_group == LargestGroup(spacing_components)
        ratios == PositiveRatios(largest_group)
        variance == RatioVariance(ratios)
        confidence == PenalizedConfidence(SpacingBaseConfidence, variance)
        boosted == IF Len(ratios) >= BoostCount /\ RLt(variance, BoostVariance)
                   THEN RMin(RMul(confidence, BoostFactor), BoostCap)
                   ELSE confidence
    IN  IF TooFewSpacings(spacing_components) THEN ReturnedNone
        ELSE IF RatiosRaise(largest_group) THEN Raised
        ELSE IF ratios = <<>> THEN ReturnedNone
        ELSE Returned(CalibrationCandidate("spacing_pattern", largest_group,
                 Mean(ratios), boosted, variance))

\* self.calibration_methods, in the order __init__ lists them
calibration_methods == <<"steel_section", "timber_size", "spacing_pattern">>

\* method(components, detected_elements)
InvokeMethod(method, components) ==
    CASE method = "steel_section" -> _calibrate_from_steel_sections(components)
      [] method = "timber_size" -> _calibrate_from_timber_sizes(components)
      [] method = "spacing_pattern" -> _calibrate_from_spacing_patterns(components)

(***************************************************************************)
(* Candidate scoring and selection.                                        *)
(***************************************************************************)
RECURSIVE ConfidenceSeq(_)
ConfidenceSeq(comps) ==
    IF comps = <<>> THEN <<>>
    ELSE <<Head(comps).confidence>> \o ConfidenceSeq(Tail(comps))

FullCount == 3

\* a score without the count factor
CountFactor_Ignored(cand) == One

\* a count factor without its cap: len(self.components) / 3.0
CountFactor_Uncapped(cand) == RDiv(R(Len(cand.components)), R(FullCount))

\* min(len(self.components) / 3.0, 1.0)
CountFactor(cand) == RMin(RDiv(R(Len(cand.components)), R(FullCount)), One)

\* max(0, 1.0 - self.variance * 10)
VariancePenalty(cand) == RMax(Zero, RSub(One, RMul(cand.variance, Ten)))

\* CalibrationCandidate.reliability_score
reliability_score(cand) ==
    RMul(RMul(RDiv(RSum(ConfidenceSeq(cand.components)),
                   R(Len(cand.components))),
              CountFactor(cand)),
         VariancePenalty(cand))

\* an unstable descending sort: a new element overtakes an equal one
GoesBefore_Unstable(new_score, placed_score) == RGe(new_score, placed_score)

\* where sorted(..., reverse=True) places a new element relative to an equal
\* one already placed: after it (the sort is stable also when reversed)
GoesBefore(new_score, placed_score) == RGt(new_score, placed_score)

\* insertion of cand into a list already sorted by descending score
RECURSIVE InsertByScore(_, _)
InsertByScore(sorted, cand) ==
    IF sorted = <<>> THEN <<cand>>
    ELSE IF GoesBefore(reliability_score(cand), reliability_score(Head(sorted)))
    THEN <<cand>> \o sorted
    ELSE <<Head(sorted)>> \o InsertByScore(Tail(sorted), cand)

\* sorted(candidates, key=lambda c: c.reliability_score, reverse=True)
RECURSIVE SortedByScore(_)
SortedByScore(cands) ==
    IF cands = <<>> THEN <<>>
    ELSE InsertByScore(SortedByScore(SubSeq(cands, 1, Len(cands) - 1)),
                       cands[Len(cands)])

\* AutoCalibrator._select_best_calibration: best = sorted_candidates[0]
_select_best_calibration(cands) == SortedByScore(cands)[1]

(***************************************************************************)
(* CalibrationResult and its constructors.                                 *)
(***************************************************************************)
\* a constructor that keeps the mm_per_pixel it is given
CalibrationResult_KeepsArgument(method, pixels_per_mm, mm_per_pixel, confidence, reference_components, calibration_details, status) ==
    [method |-> method,
     pixels_per_mm |-> pixels_per_mm,
     mm_per_pixel |-> mm_per_pixel,
     confidence |-> confidence,
     reference_components |-> reference_components,
     calibration_details |-> calibration_details,
     status |-> status]

\* the dataclass constructor followed by __post_init__, which overwrites
\* mm_per_pixel whatever value was passed
CalibrationResult(method, pixels_per_mm, mm_per_pixel, confidence, reference_components, calibration_details, status) ==
    [method |-> method,
     pixels_per_mm |-> pixels_per_mm,
     mm_per_pixel |-> IF RGt(pixels_per_mm, Zero)
                      THEN RDiv(One, pixels_per_mm) ELSE Zero,
     confidence |-> confidence,
     reference_components |-> reference_components,
     calibration_details |-> calibration_details,
     status |-> status]

\* a null result that keeps a unit ratio
CalibrationResultNone_UnitRatio ==
    CalibrationResult("none", One, Zero, Zero, <<>>,
                      [error |-> "No calibration available"], "failed")

\* a null result that keeps a confidence
CalibrationResultNone_HalfConfidence ==
    CalibrationResult("none", Zero, Zero, Half, <<>>,
                      [error |-> "No calibration available"], "failed")

\* CalibrationResult.none
CalibrationResultNone ==
    CalibrationResult("none", Zero, Zero, Zero, <<>>,
                      [error |-> "No calibration available"], "failed")

\* set(c.label for c in candidate.components)
LabelSet(comps) == {comps[i].label : i \in 1..Len(comps)}

\* the orders list(set(...)) can produce: every enumeration of the set
\* without repetition (the iteration order of a set of str is unspecified)
Enumerations(S) ==
    {f \in [1..Cardinality(S) -> S] : \A x \in S : \E i \in DOMAIN f : f[i] = x}

DetailLimit == 5

\* a measurements list that is not cut at five entries
Measurements_All(comps) ==
    [i \in 1..Len(comps) |->
        [component |-> comps[i].label,
         pixels |-> comps[i].pixel_dimension,
         expected_mm |-> comps[i].expected_mm,
         ratio |-> ComponentPixelsPerMm(comps[i])]]

\* the "measurements" list of calibration_details: candidate.components[:5]
Measurements(comps) ==
    [i \in 1..(IF Len(comps) < DetailLimit THEN Len(comps) ELSE DetailLimit) |->
        [component |-> comps[i].label,
         pixels |-> comps[i].pixel_dimension,
         expected_mm |-> comps[i].expected_mm,
         ratio |-> ComponentPixelsPerMm(comps[i])]]

\* AutoCalibrator._create_calibration_result, for one order of the label list
_create_calibration_result(candidate, reference_components) ==
    CalibrationResult(candidate.method, candidate.pixels_per_mm,
        RDiv(One, candidate.pixels_per_mm), candidate.confidence,
        reference_components,
        [method |-> candidate.method,
         component_count |-> Len(candidate.components),
         variance |-> candidate.variance,
         measurements |-> Measurements(candidate.components)],
        "auto_calibrated")

A3WidthMm == 420
A3WidthPixels300Dpi == 4961
ScaleConfidenceFactor == Norm(7, 10)
DefaultScaleConfidence == Norm(8, 10)

\* a fallback that keeps the supplied confidence
ScaledConfidence_Unscaled(confidence) == confidence

\* confidence * 0.7
ScaledConfidence(confidence) == RMul(confidence, ScaleConfidenceFactor)

\* str(i) for an integer i, as a label
RECURSIVE NatToChars(_)
NatToChars(i) ==
    IF i < 10 THEN <<Digits[i + 1]>>
    ELSE NatToChars(i \div 10) \o <<Digits[(i % 10) + 1]>>

IntToChars(i) == IF i < 0 THEN <<"-">> \o NatToChars(-i) ELSE NatToChars(i)

\* CalibrationResult.from_scale: [kind, exception, result]; the division
\* a3_width_pixels_300dpi / real_world_width raises for scale_factor = 0
from_scale(scale_factor, confidence) ==
    LET real_world_width == A3WidthMm * scale_factor
        pixels_per_mm == RDiv(R(A3WidthPixels300Dpi), R(real_world_width))
    IN  IF real_world_width = 0
        THEN [kind |-> "raise", exception |-> "ZeroDivisionError",
              result |-> CalibrationResultNone]
        ELSE [kind |-> "return", exception |-> "",
              result |-> CalibrationResult("scale_notation", pixels_per_mm,
                  RDiv(One, pixels_per_mm),
                  ScaledConfidence(confidence),
                  << <<"S","c","a","l","e"," ","1",":">>
                       \o IntToChars(scale_factor) >>,
                  [scale_factor |-> scale_factor, assumed_dpi |-> 300,
                   assumed_paper_size |-> "A3"],
                  "scale_based")]

\* CalibrationResult.convert_pixels_to_mm
convert_pixels_to_mm(calibration, pixels) ==
    RMul(pixels, calibration.mm_per_pixel)

\* CalibrationResult.convert_mm_to_pixels
convert_mm_to_pixels(calibration, mm) ==
    RMul(mm, calibration.pixels_per_mm)

(***************************************************************************)
(* validate_calibration.  A test point is a dict like a measurements dict, *)
(* with the keys "pixels" and "expected_mm".                               *)
(***************************************************************************)
\* the exception the loop body raises on this point, "" if it completes
PointException(measurement) ==
    IF ~HasKey(measurement, "pixels") THEN "KeyError"
    ELSE IF ~HasKey(measurement, "expected_mm") THEN "KeyError"
    ELSE IF ~Lookup(measurement, "pixels").numeric THEN "TypeError"
    ELSE IF ~Lookup(measurement, "expected_mm").numeric THEN "TypeError"
    ELSE IF Lookup(measurement, "expected_mm").value = 0 THEN "ZeroDivisionError"
    ELSE ""

Hundred == R(100)

\* one entry of the errors list
PointError(calibration, measurement) ==
    LET pixels == R(Lookup(measurement, "pixels").value)
        expected_mm == R(Lookup(measurement, "expected_mm").value)
        calculated_mm == convert_pixels_to_mm(calibration, pixels)
        error_mm == RAbs(RSub(calculated_mm, expected_mm))
    IN  [expected_mm |-> expected_mm,
         calculated_mm |-> calculated_mm,
         error_mm |-> error_mm,
         error_percent |-> RMul(RDiv(error_mm, expected_mm), Hundred)]

PointErrors(calibration, test_measurements) ==
    [i \in 1..Len(test_measurements) |->
        PointError(calibration, test_measurements[i])]

ErrorPercents(errors) == [i \in 1..Len(errors) |-> errors[i].error_percent]

AvgErrorLimit == R(5)
MaxErrorLimit == R(10)

\* a validity test that forgets the maximum
IsValid_AverageOnly(avg_error_percent, max_error_percent) ==
    RLt(avg_error_percent, AvgErrorLimit)

\* is_valid = avg_error_percent < 5.0 and max_error_percent < 10.0
IsValid(avg_error_percent, max_error_percent) ==
    RLt(avg_error_percent, AvgErrorLimit) /\ RLt(max_error_percent, MaxErrorLimit)

\* AutoCalibrator.validate_calibration: [kind, exception, response]
validate_calibration(calibration, test_measurements) ==
    LET failing == {i \in 1..Len(test_measurements) :
                       PointException(test_measurements[i]) # ""}
        first == CHOOSE i \in failing : \A j \in failing : i <= j
        errors == PointErrors(calibration, test_measurements)
        avg_error_percent == Mean(ErrorPercents(errors))
        max_error_percent == RMaxSeq(ErrorPercents(errors))
        is_valid == IsValid(avg_error_percent, max_error_percent)
    IN  IF test_measurements = <<>>
        THEN [kind |-> "return", exception |-> "",
              response |-> [valid |-> TRUE,
                            message |-> "No test measurements provided"]]
        ELSE IF failing # {}
        THEN [kind |-> "raise",
              exception |-> PointException(test_measurements[first]),
              response |-> [valid |-> FALSE, message |-> ""]]
        ELSE [kind |-> "return", exception |-> "",
              response |->
                [valid |-> is_valid,
                 average_error_percent |-> avg_error_percent,
                 max_error_percent |-> max_error_percent,
                 errors |-> errors,
                 message |-> IF is_valid THEN "Calibration validated"
                             ELSE "Calibration accuracy outside acceptable range"]]

(***************************************************************************)
(* Inputs of the model: the detected elements the vision stage hands over, *)
(* the thresholds a calibrator is constructed with, the scale annotations  *)
(* and the validation points.                                              *)
(***************************************************************************)
MaxElements == 3
MaxPoints == 3

L200PFC == <<"2","0","0","P","F","C">>
L250PFC == <<"2","5","0","P","F","C">>
L200x45 == <<"2","0","0","x","4","5">>
L450CTS == <<"4","5","0"," ","C","T","S">>
L600CTS == <<"6","0","0","C","T","S">>
LJ1 == <<"J","1">>

Element(label, confidence, measurements) ==
    [label |-> label, confidence |-> confidence, measurements |-> measurements]

Height(v) == Entry("height_pixels", v)
Width(v) == Entry("width_pixels", v)
Spacing(v) == Entry("spacing_pixels", v)

ElementPool ==
    { Element(L200PFC, Norm(9, 10), {Height(Num(85))}),
      Element(L200PFC, Norm(95, 100), {Height(Num(85)), Width(Num(32))}),
      Element(L250PFC, Zero, {Height(Num(250))}),
      Element(L200PFC, Norm(9, 10), {Height(NotANumber)}),
      Element(L200x45, Norm(9, 10), {Width(Num(84))}),
      Element(L200x45, One, {Width(Num(84)), Height(Num(19))}),
      Element(L450CTS, Norm(85, 100), {Spacing(Num(189))}),
      Element(L600CTS, One, {Spacing(Num(300))}),
      Element(L200PFC, Norm(9, 10), {}),
      Element(LJ1, Norm(95, 100),
              {Entry("width_mm", Num(200)), Entry("depth_mm", Num(45))}) }

SeqsUpTo(S, k) == UNION {[1..n -> S] : n \in 0..k}

\* Scenario B of the specification: one 200PFC, one 200x45 and three
\* 450 CTS detections, each with a confidence of at least 0.7
ScenarioConfidences == {Norm(7, 10), Norm(9, 10), One}
ScenarioSpacings == {188, 189, 190}

ScenarioB ==
    { << Element(L200PFC, c1, {Height(Num(85))}),
         Element(L200x45, c2, {Width(Num(84))}),
         Element(L450CTS, c3, {Spacing(Num(p1))}),
         Element(L450CTS, c3, {Spacing(Num(p2))}),
         Element(L450CTS, c3, {Spacing(Num(p3))}) >> :
      c1 \in ScenarioConfidences, c2 \in ScenarioConfidences,
      c3 \in ScenarioConfidences,
      p1 \in ScenarioSpacings, p2 \in ScenarioSpacings, p3 \in ScenarioSpacings }

Inputs == SeqsUpTo(ElementPool, MaxElements) \cup ScenarioB

DefaultMinConfidence == Norm(7, 10)
Thresholds == {DefaultMinConfidence, Norm(95, 100)}

ScaleFactors == {100, 50, 0, -100}
ScaleConfidences == {DefaultScaleConfidence, One, Zero}

Point(pixels, expected_mm) ==
    {Entry("pixels", pixels), Entry("expected_mm", expected_mm)}

PointPool ==
    { Point(Num(85), Num(200)), Point(Num(84), Num(200)),
      Point(Num(95), Num(200)), Point(Num(85), Num(0)),
      {Entry("pixels", Num(85))}, {Entry("expected_mm", Num(200))} }

TestSets == SeqsUpTo(PointPool, MaxPoints)

(***************************************************************************)
(* The state machine: one AutoCalibrator serving one auto_calibrate call,  *)
(* followed by the collaborator's fallback and by a validation.            *)
(***************************************************************************)
VARIABLES detected_elements, min_confidence, pc, components, method_index,
          outcomes, candidates, log, result, raised, validation, call,
          conversion, calls

vars == <<detected_elements, min_confidence, pc, components, method_index,
          outcomes, candidates, log, result, raised, validation, call,
          conversion, calls>>

Pending == [status |-> "pending"]
NotValidated == [kind |-> "pending"]

\* call: the arguments of the last construction of a CalibrationResult by
\* the caller; conversion: the unit conversions made with the result
NoCall == [op |-> "none"]
NotConverted == [stage |-> "none"]

\* calls: the frames of the auto_calibrate calls that run concurrently on
\* the calibrator, none in the specifications of a single call
NoCalls == <<>>

\* a calibrator constructed and about to serve one auto_calibrate call
Constructed ==
    /\ min_confidence \in Thresholds
    /\ pc = "called"
    /\ components = <<>>
    /\ method_index = 1
    /\ outcomes = <<>>
    /\ candidates = <<>>
    /\ log = <<>>
    /\ result = Pending
    /\ raised = ""
    /\ validation = NotValidated
    /\ call = NoCall
    /\ conversion = NotConverted

Init ==
    /\ detected_elements \in Inputs
    /\ Constructed
    /\ calls = NoCalls

\* auto_calibrate, lines 66-73: extraction and the empty candidate list
Extract ==
    /\ pc = "called"
    /\ components' = _extract_components(detected_elements)
    /\ candidates' = <<>>
    /\ method_index' = 1
    /\ pc' = "methods"
    /\ UNCHANGED <<detected_elements, calls, min_confidence, outcomes, log, result,
                   raised, validation, call, conversion>>

\* a loop without the try/except around the invocation
CaughtByHandler_Never(outcome) == FALSE

\* a threshold test that rejects a confidence equal to the threshold
Accepted_Strict(outcome, threshold) ==
    outcome.kind = "candidate" /\ RGt(outcome.cand.confidence, threshold)

\* "except Exception" catches whatever an estimator raises
CaughtByHandler(outcome) == outcome.kind = "raise"

\* candidate and candidate.confidence >= self.min_confidence
Accepted(outcome, threshold) ==
    outcome.kind = "candidate" /\ RGe(outcome.cand.confidence, threshold)

\* auto_calibrate, lines 74-86: one iteration of the loop over the methods
TryMethod ==
    /\ pc = "methods"
    /\ LET method == calibration_methods[method_index]
       IN  \E outcome \in {InvokeMethod(method, components)} :
           IF outcome.kind = "raise" /\ ~CaughtByHandler(outcome)
           THEN /\ raised' = "TypeError"
                /\ pc' = "raised"
                /\ UNCHANGED <<outcomes, candidates, log, method_index>>
           ELSE /\ outcomes' = Append(outcomes, outcome)
                /\ candidates' = IF Accepted(outcome, min_confidence)
                                 THEN Append(candidates, outcome.cand)
                                 ELSE candidates
                /\ log' = IF outcome.kind = "raise"
                          THEN Append(log, [level |-> "error", method |-> method])
                          ELSE IF Accepted(outcome, min_confidence)
                          THEN Append(log, [level |-> "info", method |-> method])
                          ELSE log
                /\ method_index' = method_index + 1
                /\ pc' = IF method_index = Len(calibration_methods)
                         THEN "select" ELSE "methods"
                /\ raised' = raised
    /\ UNCHANGED <<detected_elements, calls, min_confidence, components, result,
                   validation, call, conversion>>

\* auto_calibrate, lines 88-94: selection and the returned result
Finish ==
    /\ pc = "select"
    /\ IF candidates # <<>>
       THEN LET best_candidate == _select_best_calibration(candidates)
            IN  \E refs \in Enumerations(LabelSet(best_candidate.components)) :
                   result' = _create_calibration_result(best_candidate, refs)
       ELSE result' = CalibrationResultNone
    /\ pc' = "done"
    /\ UNCHANGED <<detected_elements, calls, min_confidence, components, method_index,
                   outcomes, candidates, log, raised, validation, call,
                   conversion>>

\* the collaborator's fallback after a failed calibration
FromScale ==
    /\ pc = "done"
    /\ result.status = "failed"
    /\ \E scale_factor \in ScaleFactors, confidence \in ScaleConfidences :
          LET outcome == from_scale(scale_factor, confidence)
          IN  /\ result' = IF outcome.kind = "return" THEN outcome.result
                           ELSE result
              /\ raised' = outcome.exception
              /\ call' = [op |-> "from_scale", scale_factor |-> scale_factor,
                          confidence |-> confidence]
    /\ pc' = "fallback"
    /\ UNCHANGED <<detected_elements, calls, min_confidence, components, method_index,
                   outcomes, candidates, log, validation, conversion>>

\* validate_calibration on the calibration in hand
Validate ==
    /\ pc \in {"done", "fallback"}
    /\ raised = ""
    /\ \E test_measurements \in TestSets :
          LET outcome == validate_calibration(result, test_measurements)
          IN  /\ validation' = [input |-> test_measurements] @@ outcome
              /\ raised' = outcome.exception
    /\ pc' = "validated"
    /\ UNCHANGED <<detected_elements, calls, min_confidence, components, method_index,
                   outcomes, candidates, log, result, call, conversion>>

Next == Extract \/ TryMethod \/ Finish \/ FromScale

Spec == Init /\ [][Next]_vars

\* the calibrations that get validated: the failed one and those resting on
\* one detected element
ValidatedInputs == {<<>>} \cup {<<e>> : e \in ElementPool}

\* the same machine followed by a validation of its result
InitValidate ==
    /\ Init
    /\ detected_elements \in ValidatedInputs

NextValidate == Extract \/ TryMethod \/ Finish \/ FromScale \/ Validate

SpecValidate == InitValidate /\ [][NextValidate]_vars

(***************************************************************************)
(* Detections as a vision stage words them: labels in lower case or padded *)
(* with blanks, measurements of zero pixels, dicts without pixel keys, an  *)
(* element that is timber and spacing at once, and runs of spacings.       *)
(***************************************************************************)
MaxEvidenceElements == 2

LPadded200pfc == <<" ","2","0","0","p","f","c"," ">>
L200pfc == <<"2","0","0","p","f","c">>
L200x45At450 == <<"2","0","0","x","4","5"," ","@","4","5","0">>

EvidencePool ==
    { Element(LPadded200pfc, Norm(9, 10), {Height(Num(85))}),
      Element(L200pfc, Norm(9, 10), {Height(Num(85)), Width(Num(32))}),
      Element(L200PFC, Norm(9, 10), {Width(Num(32))}),
      Element(L250PFC, One, {Height(Num(0))}),
      Element(L200x45, One, {Width(Num(84)), Height(Num(19))}),
      Element(L200x45, Norm(9, 10),
              {Entry("width_mm", Num(200)), Entry("depth_mm", Num(45))}),
      Element(L200x45At450, Norm(9, 10),
              {Width(Num(84)), Height(Num(19)), Spacing(Num(189))}),
      Element(L450CTS, Norm(85, 100), {Spacing(Num(189))}),
      Element(L450CTS, Norm(85, 100), {Spacing(Num(0))}) }

SpacingPool ==
    { Element(L450CTS, Norm(85, 100), {Spacing(Num(189))}),
      Element(L450CTS, Norm(85, 100), {Spacing(Num(190))}),
      Element(L450CTS, Norm(85, 100), {Spacing(Num(0))}),
      Element(L450CTS, Norm(85, 100), {Spacing(Num(450))}),
      Element(L600CTS, One, {Spacing(Num(300))}) }

SpacingRuns == [1..3 -> SpacingPool]

\* spacings of two notations that tie on the number of records
Spacing450 == Element(L450CTS, Norm(85, 100), {Spacing(Num(189))})
Spacing600 == Element(L600CTS, One, {Spacing(Num(300))})

SpacingTies ==
    { <<Spacing600, Spacing450>>,
      <<Spacing450, Spacing600>>,
      <<Spacing600, Spacing450, Spacing450, Spacing600>>,
      <<Spacing450, Spacing600, Spacing600, Spacing450>>,
      <<Spacing600, Spacing450, Spacing600, Spacing450, Spacing450>> }

EvidenceInputs ==
    SeqsUpTo(EvidencePool, MaxEvidenceElements) \cup SpacingRuns \cup SpacingTies

InitEvidence ==
    /\ detected_elements \in EvidenceInputs
    /\ Constructed
    /\ calls = NoCalls

SpecEvidence == InitEvidence /\ [][Next]_vars

(***************************************************************************)
(* Unit conversion with a calibration in hand: the result of               *)
(* auto_calibrate, of the scale fallback, or a CalibrationResult the       *)
(* caller constructs itself (status "manual").                             *)
(***************************************************************************)
ManualRatios == {Norm(425, 1000), R(2), Norm(1, 3), Zero, RNeg(One)}
ManualReciprocals == {Zero, One, R(99)}
PixelValues == {Zero, R(100), R(85), Norm(1, 3), RNeg(R(7))}

ConvertedInputs ==
    { <<>>,
      <<Element(L200PFC, Norm(9, 10), {Height(Num(85))})>>,
      <<Element(L200x45, One, {Width(Num(84)), Height(Num(19))})>> }

InitConvert ==
    /\ detected_elements \in ConvertedInputs
    /\ Constructed
    /\ calls = NoCalls

\* CalibrationResult(...) called directly with a ratio and any mm_per_pixel
Construct ==
    /\ pc = "done"
    /\ \E pixels_per_mm \in ManualRatios, mm_per_pixel \in ManualReciprocals :
          /\ result' = CalibrationResult("manual", pixels_per_mm, mm_per_pixel,
                            One, <<>>, [source |-> "manual"], "manual")
          /\ call' = [op |-> "CalibrationResult",
                      pixels_per_mm |-> pixels_per_mm,
                      mm_per_pixel |-> mm_per_pixel]
    /\ pc' = "manual"
    /\ UNCHANGED <<detected_elements, calls, min_confidence, components, method_index,
                   outcomes, candidates, log, raised, validation, conversion>>

\* result.convert_pixels_to_mm(pixels)
ConvertPixelsToMm ==
    /\ pc \in {"done", "fallback", "manual"}
    /\ raised = ""
    /\ \E pixels \in PixelValues :
          conversion' = [stage |-> "mm", pixels |-> pixels,
                         mm |-> convert_pixels_to_mm(result, pixels)]
    /\ pc' = "converted_mm"
    /\ UNCHANGED <<detected_elements, calls, min_confidence, components, method_index,
                   outcomes, candidates, log, result, raised, validation, call>>

\* result.convert_mm_to_pixels(mm) on the value just obtained
ConvertMmToPixels ==
    /\ pc = "converted_mm"
    /\ conversion' = [stage |-> "pixels", pixels |-> conversion.pixels,
                      mm |-> conversion.mm,
                      pixels_back |-> convert_mm_to_pixels(result, conversion.mm)]
    /\ pc' = "converted"
    /\ UNCHANGED <<detected_elements, calls, min_confidence, components, method_index,
                   outcomes, candidates, log, result, raised, validation, call>>

NextConvert ==
    Extract \/ TryMethod \/ Finish \/ FromScale \/ Construct
        \/ ConvertPixelsToMm \/ ConvertMmToPixels

SpecConvert == InitConvert /\ [][NextConvert]_vars

(***************************************************************************)
(* auto_calibrate as a function of its input.                              *)
(***************************************************************************)
\* the candidate list auto_calibrate holds when it reaches the selection
PassingCandidates(elements, threshold) ==
    LET comps == _extract_components(elements)
        outs == [i \in 1..Len(calibration_methods) |->
                    InvokeMethod(calibration_methods[i], comps)]
        passing == SelectSeq(outs, LAMBDA o : Accepted(o, threshold))
    IN  [i \in 1..Len(passing) |-> passing[i].cand]

\* the results a call that runs alone can return, one per order of the
\* reference label list
auto_calibrate(elements, threshold) ==
    LET comps == _extract_components(elements)
        outs == [i \in 1..Len(calibration_methods) |->
                    InvokeMethod(calibration_methods[i], comps)]
        cands == PassingCandidates(elements, threshold)
    IN  IF \E i \in 1..Len(outs) :
              outs[i].kind = "raise" /\ ~CaughtByHandler(outs[i])
        THEN {}
        ELSE IF cands = <<>> THEN {CalibrationResultNone}
        ELSE {_create_calibration_result(_select_best_calibration(cands), refs) :
                 refs \in Enumerations(
                     LabelSet(_select_best_calibration(cands).components))}

(***************************************************************************)
(* Detections rated by the upstream detector with any confidence, 0        *)
(* included.                                                               *)
(***************************************************************************)
MaxRatedElements == 2

RatedPool ==
    { Element(L200PFC, Zero, {Height(Num(85))}),
      Element(L200PFC, Norm(9, 10), {Height(Num(85)), Width(Num(32))}),
      Element(L250PFC, Norm(1, 2), {Height(Num(250))}),
      Element(L200x45, Norm(9, 10), {Width(Num(84))}),
      Element(L450CTS, Norm(85, 100), {Spacing(Num(189))}),
      Element(L450CTS, Zero, {Spacing(Num(190))}) }

RatedInputs == SeqsUpTo(RatedPool, MaxRatedElements)

InitRated ==
    /\ detected_elements \in RatedInputs
    /\ Constructed
    /\ calls = NoCalls

SpecRated == InitRated /\ [][Next]_vars

(***************************************************************************)
(* Several auto_calibrate calls on one AutoCalibrator, their steps         *)
(* interleaved.  Each call has a frame with its argument and its local     *)
(* variables; min_confidence is the attribute of the shared instance.      *)
(***************************************************************************)
MaxCalls == 2

CallIds == 1..MaxCalls

ConcurrentInputs ==
    { <<>>,
      <<Element(L200PFC, Norm(9, 10), {Height(Num(85))})>>,
      <<Element(L200x45, One, {Width(Num(84)), Height(Num(19))})>>,
      <<Spacing450, Spacing450, Spacing600>> }

NewCall(elements) ==
    [detected_elements |-> elements, pc |-> "called", components |-> <<>>,
     method_index |-> 1, candidates |-> <<>>, result |-> Pending]

InitConcurrent ==
    /\ detected_elements = <<>>
    /\ Constructed
    /\ calls \in [CallIds -> {NewCall(elements) : elements \in ConcurrentInputs}]

\* a candidate list kept on the instance, one for all calls
CandidatesOwner_Instance(id) == 1

\* the frame that holds the candidate list of call id: "candidates = []"
\* is a local variable of auto_calibrate
CandidatesOwner(id) == id

\* lines 66-73 in call id
CallExtract(id) ==
    /\ calls[id].pc = "called"
    /\ LET extracted == [calls EXCEPT ![id] =
                            [@ EXCEPT !.components =
                                          _extract_components(calls[id].detected_elements),
                                      !.method_index = 1,
                                      !.pc = "methods"]]
       IN  calls' = [extracted EXCEPT ![CandidatesOwner(id)].candidates = <<>>]
    /\ UNCHANGED <<detected_elements, min_confidence, pc, components,
                   method_index, outcomes, candidates, log, result, raised,
                   validation, call, conversion>>

\* lines 74-86 in call id: one iteration of the loop over the methods
CallTryMethod(id) ==
    /\ calls[id].pc = "methods"
    /\ LET method == calibration_methods[calls[id].method_index]
       IN  \E outcome \in {InvokeMethod(method, calls[id].components)} :
           IF outcome.kind = "raise" /\ ~CaughtByHandler(outcome)
           THEN calls' = [calls EXCEPT ![id].pc = "raised"]
           ELSE LET stepped == [calls EXCEPT ![id] =
                                  [@ EXCEPT !.method_index = @ + 1,
                                            !.pc = IF calls[id].method_index
                                                        = Len(calibration_methods)
                                                   THEN "select" ELSE "methods"]]
                IN  calls' = IF Accepted(outcome, min_confidence)
                             THEN [stepped EXCEPT
                                     ![CandidatesOwner(id)].candidates =
                                         Append(@, outcome.cand)]
                             ELSE stepped
    /\ UNCHANGED <<detected_elements, min_confidence, pc, components,
                   method_index, outcomes, candidates, log, result, raised,
                   validation, call, conversion>>

\* lines 88-94 in call id
CallFinish(id) ==
    /\ calls[id].pc = "select"
    /\ LET found == calls[CandidatesOwner(id)].candidates
       IN  IF found # <<>>
           THEN LET best_candidate == _select_best_calibration(found)
                IN  \E refs \in Enumerations(LabelSet(best_candidate.components)) :
                       calls' = [calls EXCEPT ![id] =
                                   [@ EXCEPT !.result =
                                         _create_calibration_result(best_candidate, refs),
                                             !.pc = "done"]]
           ELSE calls' = [calls EXCEPT ![id] =
                            [@ EXCEPT !.result = CalibrationResultNone,
                                      !.pc = "done"]]
    /\ UNCHANGED <<detected_elements, min_confidence, pc, components,
                   method_index, outcomes, candidates, log, result, raised,
                   validation, call, conversion>>

NextConcurrent ==
    \E id \in CallIds : CallExtract(id) \/ CallTryMethod(id) \/ CallFinish(id)

SpecConcurrent == InitConcurrent /\ [][NextConcurrent]_vars

(***************************************************************************)
(* Properties.  outcomes[i] is what the i-th estimator of                  *)
(* calibration_methods yielded in this call.                               *)
(***************************************************************************)
Returning == pc = "done"

MethodRank(method) ==
    CHOOSE i \in 1..Len(calibration_methods) : calibration_methods[i] = method

UsedCandidate(cand) ==
    /\ result.status = "auto_calibrated"
    /\ result.method = cand.method
    /\ result.pixels_per_mm = cand.pixels_per_mm
    /\ result.confidence = cand.confidence

FailedResult ==
    /\ result.status = "failed"
    /\ result.pixels_per_mm = Zero
    /\ result.mm_per_pixel = Zero
    /\ result.confidence = Zero
    /\ result.reference_components = <<>>

\* C1 as stated: in Scenario B (one 200PFC with height 85, one 200x45 with
\* width 84, three 450 CTS spacings of 188..190 px, confidences >= 0.7) the
\* result is auto_calibrated by the steel-section method.
C1_ScenarioB_SelectsSteel ==
    (Returning /\ detected_elements \in ScenarioB)
        => (result.status = "auto_calibrated" /\ result.method = "steel_section")

\* C1 amended: with the default threshold 0.70 the result of Scenario B is
\* auto_calibrated by the spacing-pattern method, whose three consistent
\* records score above the single steel and timber records.
C1_ScenarioB_SelectsSpacing ==
    (Returning /\ detected_elements \in ScenarioB
       /\ min_confidence = DefaultMinConfidence)
        => (result.status = "auto_calibrated"
            /\ result.method = "spacing_pattern")

C1_Witness ==
    /\ Returning
    /\ detected_elements \in ScenarioB
    /\ min_confidence = DefaultMinConfidence
    /\ Len(candidates) = 3
    /\ result.method = "spacing_pattern"

\* C2: when extraction yields no evidence record at all, auto_calibrate
\* returns the failed result (zero ratio, zero inverse, zero confidence, no
\* reference components) and no exception leaves the call.
C2_NoEvidenceFails ==
    /\ (components = <<>> /\ pc \in {"select", "done", "raised"})
          => (raised = "" /\ pc # "raised" /\ candidates = <<>>)
    /\ (components = <<>> /\ Returning) => FailedResult

C2_Witness ==
    /\ Returning
    /\ detected_elements # <<>>
    /\ components = <<>>
    /\ result.status = "failed"

\* C3: for every result returned by auto_calibrate, from_scale or none, the
\* status is "failed" exactly when pixels_per_mm, mm_per_pixel and confidence
\* are all 0.
C3_FailedIffAllZero ==
    pc \in {"done", "fallback"}
        => (result.status = "failed"
              <=> (/\ result.pixels_per_mm = Zero
                   /\ result.mm_per_pixel = Zero
                   /\ result.confidence = Zero))

C3_Witness ==
    /\ pc = "fallback"
    /\ result.status = "scale_based"
    /\ result.confidence = Zero
    /\ result.mm_per_pixel = Zero

\* C4: the result is built from a candidate of maximal reliability_score
\* among those that passed the threshold, and among candidates of that
\* maximal score from the one whose estimator comes first in the order
\* steel, timber, spacing.
C4_MaxScoreEarliestMethod ==
    (Returning /\ candidates # <<>>)
        => \E i \in 1..Len(candidates) :
              /\ UsedCandidate(candidates[i])
              /\ \A j \in 1..Len(candidates) :
                    /\ RLe(reliability_score(candidates[j]),
                           reliability_score(candidates[i]))
                    /\ reliability_score(candidates[j])
                         = reliability_score(candidates[i])
                       => MethodRank(candidates[i].method)
                            <= MethodRank(candidates[j].method)

C4_Witness ==
    /\ Returning
    /\ Len(candidates) >= 2
    /\ reliability_score(candidates[1]) = reliability_score(candidates[2])
    /\ result.method = candidates[1].method

\* C5: no candidate below min_confidence is kept or selected, a candidate
\* whose confidence equals min_confidence is kept, every auto_calibrated
\* result has confidence >= min_confidence, and when no estimator reaches
\* the threshold the result is the failed result.
C5_ThresholdFilter ==
    Returning =>
        /\ \A i \in 1..Len(candidates) :
              RGe(candidates[i].confidence, min_confidence)
        /\ result.status = "auto_calibrated"
              => RGe(result.confidence, min_confidence)
        /\ \A k \in 1..Len(outcomes) :
              (outcomes[k].kind = "candidate"
                 /\ outcomes[k].cand.confidence = min_confidence)
                 => \E i \in 1..Len(candidates) : candidates[i] = outcomes[k].cand
        /\ (\A k \in 1..Len(outcomes) :
               outcomes[k].kind = "candidate"
                  => RLt(outcomes[k].cand.confidence, min_confidence))
              => FailedResult

C5_Witness ==
    /\ Returning
    /\ \E i \in 1..Len(candidates) : candidates[i].confidence = min_confidence
    /\ \E k \in 1..Len(outcomes) :
          /\ outcomes[k].kind = "candidate"
          /\ RLt(outcomes[k].cand.confidence, min_confidence)

\* C6: with fewer than 2 spacing evidence records the spacing estimator
\* abstains and the result never carries the spacing-pattern method,
\* whatever steel or timber evidence is present.
C6_SpacingNeedsTwo ==
    (pc # "called" /\ Len(OfType(components, "spacing")) < 2)
        => /\ Len(outcomes) = Len(calibration_methods)
                 => outcomes[MethodRank("spacing_pattern")].kind = "none"
           /\ \A i \in 1..Len(candidates) :
                 candidates[i].method # "spacing_pattern"
           /\ Returning => result.method # "spacing_pattern"

C6_Witness ==
    /\ Returning
    /\ Len(OfType(components, "spacing")) = 1
    /\ Len(OfType(components, "steel")) >= 2
    /\ result.status = "auto_calibrated"

\* the candidates that the estimators which returned one contribute, in the
\* order of the estimators
RECURSIVE CandidatesOfOthers(_)
CandidatesOfOthers(outs) ==
    IF outs = <<>> THEN <<>>
    ELSE (IF Head(outs).kind = "candidate"
             /\ RGe(Head(outs).cand.confidence, min_confidence)
          THEN <<Head(outs).cand>> ELSE <<>>)
         \o CandidatesOfOthers(Tail(outs))

SomeEstimatorRaised == \E k \in 1..Len(outcomes) : outcomes[k].kind = "raise"

\* C7: an exception inside one estimator never leaves auto_calibrate; the
\* estimator contributes no candidate, every later estimator is still run,
\* and the result is the one selected from the other estimators' candidates
\* (the failed result when there are none).
C7_EstimatorErrorContained ==
    /\ pc # "raised" /\ raised # "TypeError"
    /\ (Returning /\ SomeEstimatorRaised)
          => /\ Len(outcomes) = Len(calibration_methods)
             /\ candidates = CandidatesOfOthers(outcomes)
             /\ IF CandidatesOfOthers(outcomes) = <<>>
                THEN FailedResult
                ELSE /\ result.status = "auto_calibrated"
                     /\ outcomes[MethodRank(result.method)].kind = "candidate"

C7_Witness ==
    /\ Returning
    /\ outcomes[1].kind = "raise"
    /\ log # <<>> /\ log[1].level = "error"
    /\ result.status = "auto_calibrated"
    /\ result.method = "timber_size"

\* C10: every candidate an estimator produces from evidence with detector
\* confidences in [0, 1] has a reliability_score in [0, 1].
C10_ScoreInUnitInterval ==
    \A k \in 1..Len(outcomes) :
        outcomes[k].kind = "candidate"
           => /\ RGe(reliability_score(outcomes[k].cand), Zero)
              /\ RLe(reliability_score(outcomes[k].cand), One)

C10_Witness ==
    \E k \in 1..Len(outcomes) :
        /\ outcomes[k].kind = "candidate"
        /\ Len(outcomes[k].cand.components) > FullCount
        /\ RGt(reliability_score(outcomes[k].cand), Half)

Validated == pc = "validated"

\* a test point as the claims describe a malformed one: a missing field or
\* expected_mm = 0
MalformedPoint(point) ==
    \/ ~HasKey(point, "pixels")
    \/ ~HasKey(point, "expected_mm")
    \/ Lookup(point, "expected_mm").value = 0

SomeMalformed(test_measurements) ==
    \E i \in 1..Len(test_measurements) : MalformedPoint(test_measurements[i])

\* C8: validate_calibration never raises; for an empty test set and for test
\* sets with a malformed point (missing "pixels" or "expected_mm", or
\* expected_mm = 0) it returns valid = true with a message.
C8_ValidateNeverRaises ==
    Validated =>
        /\ validation.kind = "return"
        /\ (validation.input = <<>> \/ SomeMalformed(validation.input))
              => (validation.response.valid = TRUE
                  /\ validation.response.message # "")

WellFormed(test_measurements) ==
    /\ test_measurements # <<>>
    /\ \A i \in 1..Len(test_measurements) :
          /\ ~MalformedPoint(test_measurements[i])
          /\ Lookup(test_measurements[i], "pixels").numeric
          /\ Lookup(test_measurements[i], "expected_mm").numeric
          /\ Lookup(test_measurements[i], "expected_mm").value > 0

\* |pixels * mm_per_pixel - expected_mm| / expected_mm * 100
ExpectedErrorPercent(point) ==
    LET p == R(Lookup(point, "pixels").value)
        e == R(Lookup(point, "expected_mm").value)
    IN  RMul(RDiv(RAbs(RSub(RMul(p, result.mm_per_pixel), e)), e), R(100))

\* the test set made of the one point that repeats the single evidence
SingleEvidencePoint ==
    << Point(components[1].pixel_dimension, Num(components[1].expected_mm)) >>

\* C9: on a non-empty test set with positive expected_mm each error_percent
\* is |pixels * mm_per_pixel - expected_mm| / expected_mm * 100, and valid
\* holds exactly when their mean is < 5 and their maximum < 10; a
\* calibration from a single evidence (p, e) validated against the point
\* (p, e) has zero error and is valid.
C9_ValidationFormula ==
    (Validated /\ WellFormed(validation.input)) =>
        LET n == Len(validation.input)
            errs == [i \in 1..n |-> ExpectedErrorPercent(validation.input[i])]
        IN  /\ validation.kind = "return"
            /\ \A i \in 1..n :
                  validation.response.errors[i].error_percent = errs[i]
            /\ validation.response.valid
                  <=> (/\ RLt(RSum(errs), R(5 * n))
                       /\ \A i \in 1..n : RLt(errs[i], R(10)))
            /\ (/\ Len(components) = 1
                /\ result.status = "auto_calibrated"
                /\ validation.input = SingleEvidencePoint)
                  => (/\ validation.response.max_error_percent = Zero
                      /\ validation.response.average_error_percent = Zero
                      /\ validation.response.valid)

C9_Witness ==
    /\ Validated
    /\ Len(components) = 1
    /\ result.status = "auto_calibrated"
    /\ validation.input = SingleEvidencePoint
    /\ validation.kind = "return"
    /\ validation.response.valid


\* the only evidence is one steel depth record with a positive pixel height
SingleSteelDepth ==
    /\ Len(components) = 1
    /\ components[1].component_type = "steel"
    /\ components[1].measurement_axis = "vertical"
    /\ InSteelSections(components[1].label)
    /\ components[1].pixel_dimension.numeric
    /\ components[1].pixel_dimension.value > 0

\* C14: when the only evidence is one steel element labelled with a section
\* of depth d whose height_pixels is p > 0 (the threshold being one the steel
\* base confidence passes, as the default 0.70 is), auto_calibrate returns
\* auto_calibrated with pixels_per_mm = p / d and mm_per_pixel = d / p, so
\* 100 px convert to 100 * d / p mm.
C14_SingleSteelExact ==
    (Returning /\ SingleSteelDepth /\ RLe(min_confidence, Norm(95, 100)))
        => LET p == components[1].pixel_dimension.value
               d == STEEL_SECTIONS(components[1].label).depth
           IN  /\ result.status = "auto_calibrated"
               /\ result.method = "steel_section"
               /\ result.pixels_per_mm = Norm(p, d)
               /\ result.mm_per_pixel = Norm(d, p)
               /\ convert_pixels_to_mm(result, R(100)) = Norm(100 * d, p)

C14_Witness ==
    /\ Returning
    /\ SingleSteelDepth
    /\ components[1].label = L200PFC
    /\ components[1].pixel_dimension.value = 85
    /\ result.pixels_per_mm = Norm(425, 1000)
    /\ convert_pixels_to_mm(result, R(100)) = Norm(4000, 17)

\* how many entries of a list of labels equal this label
Occurrences(labels, label) ==
    Cardinality({i \in 1..Len(labels) : labels[i] = label})

\* C22: the result built from the winning candidate is auto_calibrated,
\* copies the candidate's pixels_per_mm and confidence, lists each
\* contributor label exactly once in reference_components, and records in
\* calibration_details the contributor count, the variance and the
\* measurements of the first 5 contributors in contributor order (all of
\* them when there are fewer than 5).
C22_ResultFromWinner ==
    (Returning /\ candidates # <<>>)
        => LET winner == _select_best_calibration(candidates)
               contributors == winner.components
               details == result.calibration_details
               listed == IF Len(contributors) < 5 THEN Len(contributors) ELSE 5
           IN  /\ result.status = "auto_calibrated"
               /\ result.pixels_per_mm = winner.pixels_per_mm
               /\ result.confidence = winner.confidence
               /\ \A j \in 1..Len(contributors) :
                     Occurrences(result.reference_components,
                                 contributors[j].label) = 1
               /\ \A k \in 1..Len(result.reference_components) :
                     \E j \in 1..Len(contributors) :
                        contributors[j].label = result.reference_components[k]
               /\ details.component_count = Len(contributors)
               /\ details.variance = winner.variance
               /\ Len(details.measurements) = listed
               /\ \A j \in 1..listed :
                     /\ details.measurements[j].component = contributors[j].label
                     /\ details.measurements[j].pixels
                          = contributors[j].pixel_dimension
                     /\ details.measurements[j].expected_mm
                          = contributors[j].expected_mm

\* three 200PFC elements with height and width: six contributors under two
\* labels, five of them listed
C22_Witness ==
    /\ Returning
    /\ candidates # <<>>
    /\ result.calibration_details.component_count = 6
    /\ Len(result.calibration_details.measurements) = 5
    /\ Len(result.reference_components) = 2

(***************************************************************************)
(* Properties of the unit conversions and of the scale fallback            *)
(* (SpecConvert).                                                          *)
(***************************************************************************)
Converted == pc = "converted"

\* C11: for every CalibrationResult with pixels_per_mm > 0 and every x,
\* convert_mm_to_pixels(convert_pixels_to_mm(x)) = x, whatever mm_per_pixel
\* was passed to the constructor (in exact arithmetic; the floats of the
\* code agree up to rounding).
C11_RoundTrip ==
    (Converted /\ RGt(result.pixels_per_mm, Zero))
        => conversion.pixels_back = conversion.pixels

C11_Witness ==
    /\ Converted
    /\ call.op = "CalibrationResult"
    /\ call.pixels_per_mm = Norm(425, 1000)
    /\ call.mm_per_pixel = R(99)
    /\ conversion.pixels = R(100)
    /\ conversion.mm = Norm(100000, 425)
    /\ conversion.pixels_back = R(100)

FellBack == pc = "fallback" /\ call.op = "from_scale"

\* C12: for a scale_factor s > 0 and a supplied confidence c, from_scale
\* returns status scale_based, pixels_per_mm = 4961 / (420 * s),
\* mm_per_pixel its reciprocal and confidence c * 0.7; for s = 100 and
\* c = 0.8 that is 4961/42000 and 0.56.
C12_FromScalePositive ==
    (FellBack /\ call.scale_factor > 0)
        => /\ raised = ""
           /\ result.status = "scale_based"
           /\ result.pixels_per_mm = Norm(4961, 420 * call.scale_factor)
           /\ result.mm_per_pixel = Norm(420 * call.scale_factor, 4961)
           /\ result.confidence = RMul(call.confidence, Norm(7, 10))
           /\ (call.scale_factor = 100 /\ call.confidence = Norm(8, 10))
                 => /\ result.pixels_per_mm = Norm(4961, 42000)
                    /\ result.confidence = Norm(56, 100)

C12_Witness ==
    /\ FellBack
    /\ call.scale_factor = 100
    /\ call.confidence = DefaultScaleConfidence
    /\ result.status = "scale_based"
    /\ result.confidence = Norm(56, 100)

\* C13 as stated: from_scale never raises; for every numeric scale_factor,
\* 0 and negative values included, it returns a result whose mm_per_pixel
\* is 0 whenever the derived pixels_per_mm is <= 0.
C13_FromScaleNeverRaises ==
    FellBack
        => /\ raised = ""
           /\ result.status = "scale_based"
           /\ RLe(result.pixels_per_mm, Zero) => result.mm_per_pixel = Zero

(***************************************************************************)
(* Properties of the evidence extractor and of the estimators              *)
(* (SpecEvidence).                                                         *)
(***************************************************************************)
Extracted == pc # "called"

\* 1 for a height-based record, 2 for a width-based one, 3 for a spacing
AxisRank(c) ==
    IF c.component_type = "spacing" THEN 3
    ELSE IF c.measurement_axis = "vertical" THEN 1 ELSE 2

\* the records of one element, height before width before spacing
HeightWidthSpacing(records) ==
    SelectSeq(records, LAMBDA c : AxisRank(c) = 1)
      \o SelectSeq(records, LAMBDA c : AxisRank(c) = 2)
      \o SelectSeq(records, LAMBDA c : AxisRank(c) = 3)

RECURSIVE DiscoveryOrder(_)
DiscoveryOrder(elements) ==
    IF elements = <<>> THEN <<>>
    ELSE HeightWidthSpacing(ExtractElement(Head(elements)))
         \o DiscoveryOrder(Tail(elements))

\* C15 as stated: the extractor's output is in discovery order: element
\* order, and within one element the height-based record before the
\* width-based record before the spacing record, for steel and timber alike.
C15_DiscoveryOrder ==
    Extracted => components = DiscoveryOrder(detected_elements)

\* the ratios of all the records of a contributor list
AllRatios(comps) == [j \in 1..Len(comps) |-> ComponentPixelsPerMm(comps[j])]

\* C16 as stated: every returned candidate has a non-empty contributor
\* list, every contributor has a positive ratio (expected_mm > 0 and
\* pixel_dimension > 0) and pixels_per_mm is the mean of the contributors'
\* ratios.
C16_ContributorsPositive ==
    \A i \in 1..Len(outcomes) :
        outcomes[i].kind = "candidate"
            => LET cand == outcomes[i].cand
               IN  /\ cand.components # <<>>
                   /\ \A j \in 1..Len(cand.components) :
                         /\ cand.components[j].expected_mm > 0
                         /\ cand.components[j].pixel_dimension.value > 0
                         /\ RGt(ComponentPixelsPerMm(cand.components[j]), Zero)
                   /\ cand.pixels_per_mm = Mean(AllRatios(cand.components))

\* C17 as stated: a label that equals a steel-section name up to letter case
\* and surrounding whitespace yields the steel evidence of the exact name.
C17_LabelTrimmed ==
    (Extracted /\ Len(detected_elements) = 1
       /\ detected_elements[1].measurements # {}
       /\ InSteelSections(Strip(Upper(detected_elements[1].label))))
        => OfType(components, "steel")
             = SteelEvidence(Strip(Upper(detected_elements[1].label)),
                             detected_elements[1].measurements,
                             detected_elements[1].confidence)

\* the steel records C18 describes for one element
SteelRecordsOf(element) ==
    LET name == Upper(element.label)
        i == SteelIndex(name)
    IN  IF ~InSteelSections(name) THEN <<>>
        ELSE
          (IF HasKey(element.measurements, "height_pixels")
           THEN << [label |-> name, component_type |-> "steel",
                    pixel_dimension |-> Lookup(element.measurements, "height_pixels"),
                    expected_mm |-> SteelDepth[i],
                    confidence |-> element.confidence,
                    measurement_axis |-> "vertical"] >>
           ELSE <<>>)
          \o
          (IF HasKey(element.measurements, "width_pixels") /\ SteelFlange[i] > 0
           THEN << [label |-> name \o <<"_","f","l","a","n","g","e">>,
                    component_type |-> "steel",
                    pixel_dimension |-> Lookup(element.measurements, "width_pixels"),
                    expected_mm |-> SteelFlange[i],
                    confidence |-> RMul(element.confidence, Norm(9, 10)),
                    measurement_axis |-> "horizontal"] >>
           ELSE <<>>)

RECURSIVE SteelRecords(_)
SteelRecords(elements) ==
    IF elements = <<>> THEN <<>>
    ELSE SteelRecordsOf(Head(elements)) \o SteelRecords(Tail(elements))

\* C18: for an element whose normalized (uppercased) label is a steel-section
\* name the extractor emits a vertical record of height_pixels against the
\* depth when height_pixels is present and, when width_pixels is present and
\* the section has a flange width, a horizontal record against the flange
\* width with confidence times 0.9 and the label suffixed _flange; it emits
\* no other steel record.
C18_SteelRecords ==
    Extracted => OfType(components, "steel") = SteelRecords(detected_elements)

C18_Witness ==
    /\ Extracted
    /\ Len(detected_elements) = 1
    /\ detected_elements[1].label = L200pfc
    /\ Len(components) = 2
    /\ components[1].measurement_axis = "vertical"
    /\ components[1].expected_mm = 200
    /\ components[2].label = L200PFC \o FlangeSuffix
    /\ components[2].expected_mm = 75
    /\ components[2].confidence = Norm(81, 100)

\* what C19 says of a record: its type, axis, pixel value and expected mm
Claimed(records) ==
    [j \in 1..Len(records) |->
        [component_type |-> records[j].component_type,
         measurement_axis |-> records[j].measurement_axis,
         pixel_dimension |-> records[j].pixel_dimension,
         expected_mm |-> records[j].expected_mm]]

\* the timber records C19 describes for one element
TimberRecordsOf(element) ==
    LET size == parse_timber_size(Upper(element.label))
    IN  IF size = <<>> THEN <<>>
        ELSE
          (IF HasKey(element.measurements, "width_pixels")
           THEN << [component_type |-> "timber", measurement_axis |-> "horizontal",
                    pixel_dimension |-> Lookup(element.measurements, "width_pixels"),
                    expected_mm |-> size[1]] >>
           ELSE <<>>)
          \o
          (IF HasKey(element.measurements, "height_pixels")
           THEN << [component_type |-> "timber", measurement_axis |-> "vertical",
                    pixel_dimension |-> Lookup(element.measurements, "height_pixels"),
                    expected_mm |-> size[2]] >>
           ELSE <<>>)

RECURSIVE TimberRecords(_)
TimberRecords(elements) ==
    IF elements = <<>> THEN <<>>
    ELSE TimberRecordsOf(Head(elements)) \o TimberRecords(Tail(elements))

\* C19: for an element whose label parses as a timber size (width_mm,
\* depth_mm) the extractor emits one horizontal record of width_pixels
\* against width_mm if width_pixels is present and one vertical record of
\* height_pixels against depth_mm if height_pixels is present; with neither
\* present (other keys such as width_mm notwithstanding) it emits no timber
\* record.
C19_TimberRecords ==
    Extracted
        => Claimed(OfType(components, "timber")) = TimberRecords(detected_elements)

\* a timber element that carries width_mm and depth_mm but no pixel value,
\* next to one that carries both pixel values
C19_Witness ==
    /\ Extracted
    /\ Len(detected_elements) = 2
    /\ detected_elements[1].label = L200x45
    /\ HasKey(detected_elements[1].measurements, "width_mm")
    /\ ~HasKey(detected_elements[1].measurements, "width_pixels")
    /\ HasKey(detected_elements[2].measurements, "width_pixels")
    /\ HasKey(detected_elements[2].measurements, "height_pixels")
    /\ detected_elements[2].label = L200x45
    /\ Len(components) = 2

\* the ratios an estimator uses: the positive ones, in contributor order
UsedRatios(comps) ==
    SelectSeq(AllRatios(comps), LAMBDA r : RGt(r, Zero))

\* unbiased sample variance, (sum of squares - n * mean^2) / (n - 1), and 0
\* for a single ratio
SampleVariance(ratios) ==
    IF Len(ratios) < 2 THEN Zero
    ELSE LET n == Len(ratios)
             squares == [j \in 1..n |-> RMul(ratios[j], ratios[j])]
             total == RSum(ratios)
         IN  RDiv(RSub(RSum(squares), RDiv(RMul(total, total), R(n))), R(n - 1))

BaseConfidenceOf(method) ==
    CASE method = "steel_section" -> Norm(95, 100)
      [] method = "timber_size" -> Norm(90, 100)
      [] method = "spacing_pattern" -> Norm(85, 100)

\* the confidence C20 gives a candidate
StatedConfidence(cand) ==
    LET used == UsedRatios(cand.components)
        variance == SampleVariance(used)
        scaled == RMul(variance, R(10))
        penalty == IF RLt(scaled, Norm(1, 2)) THEN scaled ELSE Norm(1, 2)
        confidence == RMul(BaseConfidenceOf(cand.method), RSub(One, penalty))
        boosted == RMul(confidence, Norm(11, 10))
    IN  IF cand.method = "spacing_pattern" /\ Len(used) >= 3
             /\ RLt(variance, Norm(1, 100))
        THEN (IF RLt(boosted, Norm(95, 100)) THEN boosted ELSE Norm(95, 100))
        ELSE confidence

\* C20: every candidate's confidence is base * (1 - min(variance * 10, 0.5))
\* with base 0.95 (steel), 0.90 (timber), 0.85 (spacing), the variance being
\* the unbiased sample variance of the used ratios (0 for one ratio); for
\* spacing, when the kept group has at least 3 used samples and the
\* variance is below 0.01, the confidence is multiplied by 1.1 and capped
\* at 0.95.
C20_ConfidenceFormula ==
    \A i \in 1..Len(outcomes) :
        outcomes[i].kind = "candidate"
            => /\ outcomes[i].cand.variance
                    = SampleVariance(UsedRatios(outcomes[i].cand.components))
               /\ outcomes[i].cand.confidence = StatedConfidence(outcomes[i].cand)

\* three 450 CTS spacings of 189, 190 and 189 px: a boosted confidence
C20_Witness ==
    /\ pc = "select"
    /\ outcomes[3].kind = "candidate"
    /\ Len(outcomes[3].cand.components) = 3
    /\ RGt(outcomes[3].cand.variance, Zero)
    /\ RLt(outcomes[3].cand.variance, Norm(1, 100))
    /\ RGt(outcomes[3].cand.confidence, Norm(85, 100))
    /\ \A j \in 1..3 : outcomes[3].cand.components[j].pixel_dimension.value > 0

\* two 450 CTS spacings of 189 and 450 px: the penalty at its ceiling
C20_PenaltyCeiling ==
    /\ pc = "select"
    /\ outcomes[3].kind = "candidate"
    /\ RGe(RMul(outcomes[3].cand.variance, R(10)), Norm(1, 2))
    /\ outcomes[3].cand.confidence = Norm(425, 1000)

\* the spacing records of the evidence list, in evidence order
SpacingRecords == SelectSeq(components, LAMBDA c : c.component_type = "spacing")

\* the spacing records expected at mm, in evidence order
RecordsAt(mm) == SelectSeq(SpacingRecords, LAMBDA c : c.expected_mm = mm)

\* the position in the evidence list of the first spacing record at mm
FirstAt(mm) ==
    CHOOSE i \in 1..Len(components) :
        /\ components[i].component_type = "spacing"
        /\ components[i].expected_mm = mm
        /\ \A j \in 1..(i - 1) :
              ~(components[j].component_type = "spacing"
                  /\ components[j].expected_mm = mm)

\* C21: the spacing estimator groups the spacing evidence by expected_mm and
\* uses only the group with the most records, the group whose first record
\* comes earliest when several have the maximal size; the candidate's
\* contributors are exactly the records of that group.
C21_LargestGroupFirstWins ==
    (Len(outcomes) = 3 /\ outcomes[3].kind = "candidate")
        => LET cand == outcomes[3].cand
               kept == cand.components[1].expected_mm
           IN  /\ cand.components = RecordsAt(kept)
               /\ \A i \in 1..Len(SpacingRecords) :
                     LET other == SpacingRecords[i].expected_mm
                     IN  \/ Len(RecordsAt(other)) < Len(RecordsAt(kept))
                         \/ /\ Len(RecordsAt(other)) = Len(RecordsAt(kept))
                            /\ FirstAt(kept) <= FirstAt(other)

\* 600, 450, 450, 600: two groups of two, the 600 group met first
C21_Witness ==
    /\ Len(outcomes) = 3
    /\ outcomes[3].kind = "candidate"
    /\ Len(SpacingRecords) = 4
    /\ SpacingRecords[1].expected_mm = 600
    /\ SpacingRecords[2].expected_mm = 450
    /\ Len(RecordsAt(450)) = 2
    /\ Len(RecordsAt(600)) = 2
    /\ Len(outcomes[3].cand.components) = 2
    /\ outcomes[3].cand.components[1].expected_mm = 600

(***************************************************************************)
(* Properties of concurrent calls (SpecConcurrent).                        *)
(***************************************************************************)
\* C23: calls interleaved on one AutoCalibrator are independent: each
\* returns a result it can return when run alone, and no step changes
\* min_confidence or the detected-element records a call was given (the
\* estimator list and the reference tables are never assigned by the code).
C23_CallsIndependent ==
    [][ /\ min_confidence' = min_confidence
        /\ \A id \in CallIds :
              /\ calls'[id].detected_elements = calls[id].detected_elements
              /\ calls'[id].pc = "done"
                    => calls'[id].result
                         \in auto_calibrate(calls'[id].detected_elements,
                                            min_confidence') ]_vars

\* the call on an empty list has returned the failed result while the call
\* on a 200PFC element holds its steel candidate and has not yet selected
C23_Witness ==
    /\ calls # NoCalls
    /\ calls[1].detected_elements # <<>>
    /\ calls[1].pc = "select"
    /\ Len(calls[1].candidates) = 1
    /\ calls[1].candidates[1].method = "steel_section"
    /\ calls[2].detected_elements = <<>>
    /\ calls[2].pc = "done"
    /\ calls[2].result.status = "failed"

\* a single call returns what auto_calibrate, taken as a function, returns
SingleCallAsFunction ==
    Returning => result \in auto_calibrate(detected_elements, min_confidence)

(***************************************************************************)
(* Properties of rated detections (SpecRated).                             *)
(***************************************************************************)
DetectorConfidences == {Zero, One}

\* the same elements with other confidence values
Rerated(elements, rating) ==
    [i \in 1..Len(elements) |-> [elements[i] EXCEPT !.confidence = rating[i]]]

\* what C24 compares of a candidate list
Passing(cands) ==
    [i \in 1..Len(cands) |->
        [method |-> cands[i].method, pixels_per_mm |-> cands[i].pixels_per_mm,
         confidence |-> cands[i].confidence]]

\* C24: the detector confidences never decide whether a calibration is
\* accepted: for an input that differs from this one only in the elements'
\* confidence values the candidates passing the threshold, their
\* pixels_per_mm and confidence, and the status of the result are the same;
\* a single steel element with confidence 0 yields an auto_calibrated result
\* with confidence 0.95.
C24_ConfidenceBlind ==
    Returning
        => /\ \A rating \in [1..Len(detected_elements) -> DetectorConfidences] :
                 LET other == Rerated(detected_elements, rating)
                 IN  /\ Passing(PassingCandidates(other, min_confidence))
                          = Passing(candidates)
                     /\ \A alone \in auto_calibrate(other, min_confidence) :
                           alone.status = result.status
           /\ (SingleSteelDepth /\ components[1].confidence = Zero)
                 => /\ result.status = "auto_calibrated"
                    /\ result.confidence = Norm(95, 100)

C24_Witness ==
    /\ Returning
    /\ SingleSteelDepth
    /\ detected_elements[1].confidence = Zero
    /\ Len(candidates) = 1
    /\ result.status = "auto_calibrated"
    /\ result.confidence = Norm(95, 100)
====
